---- MODULE Spec2Model ----
(***************************************************************************)
(* Model of the per-user kernel pool of backend/kernel_manager.py          *)
(* (KernelManager, UserKernel), its callers in backend/ai_service.py and   *)
(* the lifecycle bracket of backend/main.py.                               *)
(*                                                                         *)
(* The program runs on one asyncio event loop: a step of the model is the  *)
(* code a task runs between two suspension points (an await that can       *)
(* suspend, or waiting for the pool lock).  Time is counted in ticks of    *)
(* 30 minutes, so the default max_idle_time of 30 minutes is 1 tick.       *)
(***************************************************************************)
EXTENDS Integers, Sequences, FiniteSets, TLC

\* ---------------------------------------------------------------- bounds
MaxSessions == 2
MaxTime == 2
MaxCalls == 6
MaxPartials == 3

\* max_idle_time = timedelta(minutes=30), in ticks of 30 minutes
MaxIdleTime == 1
TitleBudget == 50
cache_duration == 3600
MaxJwksTicks == 3
MaxDepth == 3

\* ---------------------------------------------------------------- inputs
Clients == {"c1", "c2"}

\* user id strings as sequences of characters; " a" is "a" with a leading blank
UserIds == { <<"a">>, <<" ", "a">>, <<"b">> }
Tenants == {"t1", "t2"}

\* the (user_id, tenant_id) arguments get_kernel is called with
Principals ==
    { << <<"a">>, "t1" >>, << <<" ", "a">>, "t1" >>, << <<"a">>, "t2" >>,
      << <<"b">>, "t1" >> }
Modes == {"buffered", "streaming"}

\* the class of an exception raised while a caller uses its session:
\* ConnectionError (the connection to the provider failed), RuntimeError, or
\* any other subclass of Exception (ValueError for a malformed request, ...)
Errors == {"ConnectionError", "RuntimeError", "Other"}
NoError == "none"

\* ---------------------------------------------------------------- helpers
RECURSIVE lstrip(_)
lstrip(s) == IF s # <<>> /\ Head(s) = " " THEN lstrip(Tail(s)) ELSE s

RECURSIVE rstrip(_)
rstrip(s) ==
    IF s # <<>> /\ s[Len(s)] = " " THEN rstrip(SubSeq(s, 1, Len(s) - 1)) ELSE s

\* normalized_user_id = str(user_id).strip()
normalized_user_id(u) == rstrip(lstrip(u))

Keys == { normalized_user_id(u) : u \in UserIds }
SessionIds == 1 .. MaxSessions
NoKey == <<>>

\* a UserKernel object; id 0 is "no object"
NoSession ==
    [user_id |-> NoKey, tenant_id |-> "none", last_accessed |-> 0,
     is_active |-> FALSE]

VARIABLES
    kernels,        \* KernelManager._kernels: key -> session id, 0 when absent
    sess,           \* the UserKernel objects ever constructed, by id
    nextId,         \* the next fresh UserKernel.id (uuid4)
    lock,           \* owner of KernelManager._lock, or "free"
    now,            \* datetime.utcnow(), in ticks
    phase,          \* lifecycle of the pool: new, running, stop_gather, stop_plugins, stopped
    initialized,    \* PluginManager._initialized
    pc,             \* per client: idle, initializing, using, fatal_teardown, remove_teardown
    ckey,           \* per client: normalized_user_id of its current call
    cheld,          \* per client: the session id its call works on
    cerr,           \* per client: the exception raised while using the session
    sweepPc,        \* the _cleanup_loop task: off, sleep, sweep_teardown
    idle_kernels,   \* the keys collected by the scan, still to process
    sweepSnap,      \* the map as the scan saw it (history, for the sweep's contract)
    stopPending,    \* stop(): sessions whose teardown the gather awaits, then
                    \* (until stop returns) those whose teardown raised
    acquired,       \* per key: session last handed out, 0 once an eviction acted on the key
    last            \* the last operation that ended, with its outcome

vars == << kernels, sess, nextId, lock, now, phase, initialized,
           pc, ckey, cheld, cerr,
           sweepPc, idle_kernels, sweepSnap, stopPending,
           acquired, last >>

clientVars == << pc, ckey, cheld, cerr >>
sweepVars == << sweepPc, idle_kernels, sweepSnap >>
lifeVars == << phase, initialized, stopPending >>

\* ---------------------------------------------------------------- other components
\* the state of the components next to the pool; the pool's steps leave it alone
VARIABLES
    pmLock,         \* owner of PluginManager._lock, or "free"
    pmPc,           \* per task: position inside PluginManager.initialize / cleanup
    core_plugins,   \* PluginManager.core_plugins is filled
    mcp_plugins,    \* PluginManager.mcp_plugins holds the connected context7 plugin
    init_calls,     \* how many initialize() calls were made
    body_runs,      \* how often the body of initialize (lines 35-42) was entered
    epoch_runs      \* the same, counted from the last completed cleanup()

pmVars == << pmLock, pmPc, core_plugins, mcp_plugins, init_calls, body_runs, epoch_runs >>

VARIABLES
    stream_pc,            \* chat_completion_streaming: open, ended (the provider's
                          \* stream ended), handled (an exception was caught and the
                          \* error chunk yielded), closed (generate_stream left its
                          \* loop through its own except clause)
    sent_function_calls,  \* the set sent_function_calls of the turn
    chunks,               \* the chunks yielded so far
    partials_seen,        \* number of partials received from the provider
    provider_finish,      \* finish_reason of the last partial received
    completed,            \* the (name, arguments) pairs received with a result so far
    received,             \* how many invocations with a result were received so far
    events                \* generate_stream: the kinds of the events written so far

streamVars == << stream_pc, sent_function_calls, chunks, partials_seen,
                 provider_finish, completed, received, events >>

VARIABLES
    settings,             \* the table settings_v4: the row of each id, or NoRow
    response,             \* the last exchange of resolve_setting: request and response
    pending               \* create_setting: the request of each caller that is
                          \* between its scope check and its commit

settingsVars == << settings, response, pending >>

VARIABLES
    title_pc,             \* generate_title: idle, acquiring (inside get_kernel's
                          \* entry), calling (awaiting the provider), done
    title_messages,       \* its argument conversation_messages
    title_result          \* how the call ended: the title returned, or an exception

titleVars == << title_pc, title_messages, title_result >>

VARIABLES
    jwks_cache,           \* EntraIDAuth._jwks_cache: 0 for None, else a key set
    jwks_cache_time,      \* EntraIDAuth._jwks_cache_time
    jwks_now,             \* time.time()
    jwks_ticks,           \* how often the clock has advanced
    jwks_last             \* the last call of _get_jwks, reset when time passes

jwksVars == << jwks_cache, jwks_cache_time, jwks_now, jwks_ticks, jwks_last >>

VARIABLES
    ser_pc,               \* serialize_function_result: idle or done
    ser_in,               \* its argument
    ser_out               \* the value it returned

serVars == << ser_pc, ser_in, ser_out >>

utilVars == << titleVars, jwksVars, serVars >>

extVars == << pmVars, streamVars, settingsVars, utilVars >>

NoResult == [kind |-> "none"]

NoCall == [fetched |-> FALSE, called |-> FALSE]

\* the value None
None == [t |-> "none"]

\* no call of serialize_function_result yet
SerializeInit ==
    /\ ser_pc = "idle"
    /\ ser_in = None
    /\ ser_out = None

\* EntraIDAuth.__init__ (auth.py lines 39-41)
JwksInit ==
    /\ jwks_cache = 0
    /\ jwks_cache_time = 0
    /\ jwks_now = 0
    /\ jwks_ticks = 0
    /\ jwks_last = NoCall

\* no call of generate_title yet
TitleInit ==
    /\ title_pc = "idle"
    /\ title_messages = << >>
    /\ title_result = NoResult

SettingIds == { 1, 2, 3 }

\* SQL NULL / None in an id column, and the ids of the master tables
NULL == 0

NoRow == [key |-> "none"]

NoResponse == [status |-> "none"]

NoRequest == [key |-> "none"]

\* an empty table and no request under way
SettingsInit ==
    /\ settings = [i \in SettingIds |-> NoRow]
    /\ response = NoResponse
    /\ pending = [c \in Clients |-> NoRequest]

\* the first lines of chat_completion_streaming (183-184) and of generate_stream
StreamInit ==
    /\ stream_pc = "open"
    /\ sent_function_calls = {}
    /\ chunks = <<>>
    /\ partials_seen = 0
    /\ provider_finish = "none"
    /\ completed = {}
    /\ received = 0
    /\ events = <<>>

\* PluginManager.__init__ (the flag _initialized is the variable `initialized`)
PluginManagerInit ==
    /\ pmLock = "free"
    /\ pmPc = [c \in Clients |-> "idle"]
    /\ core_plugins = FALSE
    /\ mcp_plugins = FALSE
    /\ init_calls = 0
    /\ body_runs = 0
    /\ epoch_runs = 0

\* the record of the operation that ended in the last step: `sid` is the session
\* an acquire, remove or sweep worked on, `prev` the session handed out for the
\* key before, `err` and `mode` the exception that ended a caller's use of its
\* session, `tdfail` whether a teardown the operation awaited raised, `raised`
\* whether an exception left the operation
NoEvent ==
    [op |-> "none", key |-> NoKey, tenant |-> "none", sid |-> 0, err |-> NoError,
     mode |-> "none", prev |-> 0, tdfail |-> FALSE, raised |-> FALSE]

Allocated == 1 .. (nextId - 1)

\* the keys of a dict iterate in insertion order; an entry is inserted when its
\* UserKernel is constructed, so insertion order is the order of the ids
RECURSIVE ItemsFrom(_, _)
ItemsFrom(m, i) ==
    IF i > MaxSessions THEN <<>>
    ELSE LET ks == { k \in Keys : m[k] = i } IN
         (IF ks = {} THEN <<>> ELSE << CHOOSE k \in ks : TRUE >>) \o ItemsFrom(m, i + 1)

items(m) == ItemsFrom(m, 1)

\* ---------------------------------------------------------------- UserKernel
\* UserKernel.__init__
UserKernel(user_id, tenant_id) ==
    [user_id |-> user_id, tenant_id |-> tenant_id, last_accessed |-> now,
     is_active |-> TRUE]

\* UserKernel.update_access; the access counter, which only get_info reads, is
\* not part of the model
update_access(k) == [k EXCEPT !.last_accessed = now]

\* a cleanup that leaves the liveness flag as it is
cleanup_keeps_flag(k) == k

\* UserKernel.cleanup up to its await: clears the liveness flag
cleanup(k) == [k EXCEPT !.is_active = FALSE]

\* the scan's test of one kernel
is_idle(t, k) == t - k.last_accessed > MaxIdleTime

\* a classification under which every exception is critical
is_critical_always(e) == TRUE

\* isinstance(e, RuntimeError | ConnectionError)
is_critical(e) == e \in {"RuntimeError", "ConnectionError"}

\* a lock that never makes anybody wait
lock_never_held == TRUE

\* asyncio.Lock: `async with self._lock` proceeds only when nobody holds it
lock_available == lock = "free"

\* a gather without return_exceptions: the first exception is raised
gather_raises_first(failed) == failed # {}

\* asyncio.gather(*cleanup_tasks, return_exceptions=True): the exceptions of
\* the failed teardowns are returned in the result list, none is raised
gather_raises(failed) == FALSE

Init ==
    /\ kernels = [k \in Keys |-> 0]
    /\ sess = [i \in SessionIds |-> NoSession]
    /\ nextId = 1
    /\ lock = "free"
    /\ now = 0
    /\ phase = "new"
    /\ initialized = FALSE
    /\ pc = [c \in Clients |-> "idle"]
    /\ ckey = [c \in Clients |-> NoKey]
    /\ cheld = [c \in Clients |-> 0]
    /\ cerr = [c \in Clients |-> NoError]
    /\ sweepPc = "off"
    /\ idle_kernels = <<>>
    /\ sweepSnap = [k \in Keys |-> 0]
    /\ stopPending = {}
    /\ acquired = [k \in Keys |-> 0]
    /\ last = NoEvent
    /\ PluginManagerInit
    /\ StreamInit
    /\ SettingsInit
    /\ TitleInit
    /\ JwksInit
    /\ SerializeInit

\* a membership test that never finds the key
has_kernel_never(key) == FALSE

\* `normalized_user_id not in self._kernels` (line 141), negated
has_kernel(key) == kernels[key] # 0

\* the UserKernel objects of the map
InMap(ks) == { ks[k] : k \in Keys } \ {0}

\* the UserKernel objects some task can still reach: those in the map and those
\* a caller of get_kernel / remove_kernel holds
Referenced(ks, hs) == InMap(ks) \cup ({ hs[c] : c \in Clients } \ {0})

\* an object nothing references any more is reclaimed; one whose liveness flag
\* is still set stays visible, as a session that was never torn down
gc(ss, ks, hs) ==
    [i \in SessionIds |->
       IF i \in Referenced(ks, hs) \/ ss[i].is_active THEN ss[i] ELSE NoSession]

\* what a client's variables are between two calls
Idle(c) ==
    /\ pc' = [pc EXCEPT ![c] = "idle"]
    /\ ckey' = [ckey EXCEPT ![c] = NoKey]
    /\ cheld' = [cheld EXCEPT ![c] = 0]
    /\ cerr' = [cerr EXCEPT ![c] = NoError]

\* A task that reaches `async with self._lock` while the lock is held waits
\* there: the step that takes the lock is enabled only when the lock is free,
\* and the code the task ran just before (raising the exception, waking up
\* from the sleep) is part of that step.

\* the clock advances by one tick; the sections that hold the lock are short
\* against a tick of 30 minutes
Tick ==
    /\ now < MaxTime
    /\ lock = "free"
    /\ now' = now + 1
    /\ last' = NoEvent
    /\ UNCHANGED << kernels, sess, nextId, lock, clientVars, sweepVars, lifeVars,
                    acquired >>
    /\ UNCHANGED extVars

\* ---------------------------------------------------------------- get_kernel
\* get_kernel, reuse path: the lock is free, the key is in the map; the lock is
\* taken and released, update_access runs and the kernel is yielded without a
\* suspension in between (lines 133-155)
AcquireExisting(c, p) ==
    LET u == p[1]
        t == p[2]
        key == normalized_user_id(u)
        sid == kernels[key] IN
    /\ pc[c] = "idle"
    /\ phase = "running"
    /\ lock_available
    /\ has_kernel(key)
    /\ sess' = [sess EXCEPT ![sid] = update_access(@)]
    /\ pc' = [pc EXCEPT ![c] = "using"]
    /\ ckey' = [ckey EXCEPT ![c] = key]
    /\ cheld' = [cheld EXCEPT ![c] = sid]
    /\ acquired' = [acquired EXCEPT ![key] = sid]
    /\ last' = [NoEvent EXCEPT !.op = "acquire", !.key = key, !.tenant = t,
                               !.sid = sid, !.prev = acquired[key]]
    /\ UNCHANGED << kernels, nextId, lock, now, cerr, sweepVars, lifeVars >>
    /\ UNCHANGED extVars

\* get_kernel, create path up to `await kernel.initialize()` (lines 133-144):
\* the lock is taken and a UserKernel is constructed
AcquireCreate(c, p) ==
    LET u == p[1]
        t == p[2]
        key == normalized_user_id(u) IN
    /\ pc[c] = "idle"
    /\ phase = "running"
    /\ lock_available
    /\ ~ has_kernel(key)
    /\ nextId <= MaxSessions
    /\ lock' = c
    /\ sess' = [sess EXCEPT ![nextId] = UserKernel(key, t)]
    /\ nextId' = nextId + 1
    /\ pc' = [pc EXCEPT ![c] = "initializing"]
    /\ ckey' = [ckey EXCEPT ![c] = key]
    /\ cheld' = [cheld EXCEPT ![c] = nextId]
    /\ last' = NoEvent
    /\ UNCHANGED << kernels, now, cerr, sweepVars, lifeVars, acquired >>
    /\ UNCHANGED extVars

\* get_kernel, create path from the insertion to the yield (lines 145-155);
\* the tenant of the call is the one the UserKernel was constructed with
AcquireInsert(c) ==
    LET key == ckey[c]
        sid == cheld[c] IN
    /\ pc[c] = "initializing"
    /\ kernels' = [kernels EXCEPT ![key] = sid]
    /\ lock' = "free"
    /\ sess' = gc([sess EXCEPT ![sid] = update_access(@)], kernels', cheld)
    /\ pc' = [pc EXCEPT ![c] = "using"]
    /\ acquired' = [acquired EXCEPT ![key] = sid]
    /\ last' = [NoEvent EXCEPT !.op = "acquire", !.key = key,
                               !.tenant = sess[sid].tenant_id, !.sid = sid,
                               !.prev = acquired[key]]
    /\ UNCHANGED << nextId, now, ckey, cheld, cerr, sweepVars, lifeVars >>
    /\ UNCHANGED extVars

\* the body of the caller's `async with` ends without an exception
UseOk(c) ==
    /\ pc[c] = "using"
    /\ Idle(c)
    /\ sess' = gc(sess, kernels, cheld')
    /\ last' = NoEvent
    /\ UNCHANGED << kernels, nextId, lock, now, sweepVars, lifeVars, acquired >>
    /\ UNCHANGED extVars

\* get_kernel, critical error, once the lock is held (lines 160-163, up to the
\* await inside cleanup): the kernel found under the key is cleaned up; the
\* cleanup of a kernel whose flag is already cleared does nothing and the entry
\* is deleted; without an entry the exception is re-raised at once
Release(c, e) ==
    LET key == ckey[c]
        sid == kernels[key]
        ended == [NoEvent EXCEPT !.op = "call_end", !.err = e,
                                 !.mode = "buffered", !.raised = TRUE] IN
    IF ~ has_kernel(key)
    THEN /\ Idle(c)
         /\ sess' = gc(sess, kernels, cheld')
         /\ last' = ended
         /\ UNCHANGED << kernels, lock, acquired >>
    ELSE IF sess[sid].is_active
    THEN /\ sess' = [sess EXCEPT ![sid] = cleanup(@)]
         /\ lock' = c
         /\ pc' = [pc EXCEPT ![c] = "fatal_teardown"]
         /\ cerr' = [cerr EXCEPT ![c] = e]
         /\ acquired' = [acquired EXCEPT ![key] = 0]
         /\ last' = NoEvent
         /\ UNCHANGED << kernels, ckey, cheld >>
    ELSE /\ kernels' = [kernels EXCEPT ![key] = 0]
         /\ acquired' = [acquired EXCEPT ![key] = 0]
         /\ Idle(c)
         /\ sess' = gc(sess, kernels', cheld')
         /\ last' = ended
         /\ UNCHANGED lock

\* the provider raises e while the caller uses the session; m tells which
\* caller of get_kernel it is.  A streaming turn (ai_service.py 77-81,
\* semantic_kernel_setup.py 346-371) catches e and yields an error chunk, so
\* get_kernel sees no exception; a buffered completion (ai_service.py 87-113)
\* lets e reach the `except Exception` of get_kernel (lines 156-164), which
\* re-raises it at once unless it is critical; for a critical one it takes the
\* lock (line 160)
UseError(c, e, m) ==
    /\ pc[c] = "using"
    /\ IF m = "buffered" /\ is_critical(e)
       THEN /\ lock_available
            /\ Release(c, e)
       ELSE /\ Idle(c)
            /\ sess' = gc(sess, kernels, cheld')
            /\ last' = [NoEvent EXCEPT !.op = "call_end", !.err = e, !.mode = m,
                                       !.raised = (m = "buffered")]
            /\ UNCHANGED << kernels, lock, acquired >>
    /\ UNCHANGED << nextId, now, sweepVars, lifeVars >>
    /\ UNCHANGED extVars

\* get_kernel, critical error: the teardown returns and the entry is deleted
\* (line 163), or the teardown raises and the exception leaves get_kernel
FatalTeardownEnd(c, ok) ==
    LET key == ckey[c] IN
    /\ pc[c] = "fatal_teardown"
    /\ kernels' = IF ok THEN [kernels EXCEPT ![key] = 0] ELSE kernels
    /\ lock' = "free"
    /\ Idle(c)
    /\ sess' = gc(sess, kernels', cheld')
    /\ last' = [NoEvent EXCEPT !.op = "call_end", !.err = cerr[c],
                               !.mode = "buffered", !.raised = TRUE, !.tdfail = ~ ok]
    /\ UNCHANGED << nextId, now, sweepVars, lifeVars, acquired >>
    /\ UNCHANGED extVars

\* ---------------------------------------------------------------- remove_kernel
\* remove_kernel up to the await inside cleanup (lines 166-172); the cleanup of
\* a kernel whose flag is already cleared does nothing and the entry is deleted
\* (line 173); without an entry the call returns at once
RemoveLock(c, u) ==
    LET key == normalized_user_id(u)
        sid == kernels[key]
        ended == [NoEvent EXCEPT !.op = "remove_end", !.key = key, !.sid = sid] IN
    /\ pc[c] = "idle"
    /\ phase = "running"
    /\ lock_available
    /\ IF ~ has_kernel(key)
       THEN /\ last' = NoEvent
            /\ UNCHANGED << kernels, sess, lock, clientVars, acquired >>
       ELSE IF sess[sid].is_active
       THEN /\ sess' = [sess EXCEPT ![sid] = cleanup(@)]
            /\ lock' = c
            /\ pc' = [pc EXCEPT ![c] = "remove_teardown"]
            /\ ckey' = [ckey EXCEPT ![c] = key]
            /\ cheld' = [cheld EXCEPT ![c] = sid]
            /\ acquired' = [acquired EXCEPT ![key] = 0]
            /\ last' = NoEvent
            /\ UNCHANGED << kernels, cerr >>
       ELSE /\ kernels' = [kernels EXCEPT ![key] = 0]
            /\ acquired' = [acquired EXCEPT ![key] = 0]
            /\ sess' = gc(sess, kernels', cheld)
            /\ last' = ended
            /\ UNCHANGED << lock, clientVars >>
    /\ UNCHANGED << nextId, now, sweepVars, lifeVars >>
    /\ UNCHANGED extVars

\* remove_kernel: the teardown returns and the entry is deleted (line 173), or
\* the teardown raises and the exception leaves remove_kernel
RemoveTeardownEnd(c, ok) ==
    LET key == ckey[c] IN
    /\ pc[c] = "remove_teardown"
    /\ kernels' = IF ok THEN [kernels EXCEPT ![key] = 0] ELSE kernels
    /\ lock' = "free"
    /\ Idle(c)
    /\ sess' = gc(sess, kernels', cheld')
    /\ last' = [NoEvent EXCEPT !.op = "remove_end", !.key = key,
                               !.sid = cheld[c], !.raised = ~ ok, !.tdfail = ~ ok]
    /\ UNCHANGED << nextId, now, sweepVars, lifeVars, acquired >>
    /\ UNCHANGED extVars

\* ---------------------------------------------------------------- the idle sweep
\* the second loop of _cleanup_idle_kernels (lines 124-127) up to its next
\* suspension: the cleanup of a kernel whose flag is already cleared does
\* nothing and its entry is deleted at once; the result is the map and the idle
\* kernels left, the first of which is the one whose teardown is awaited
RECURSIVE SecondLoop(_, _, _)
SecondLoop(ks, ss, idle) ==
    IF idle = <<>> THEN [ks |-> ks, idle |-> <<>>]
    ELSE IF ss[ks[Head(idle)]].is_active THEN [ks |-> ks, idle |-> idle]
    ELSE SecondLoop([ks EXCEPT ![Head(idle)] = 0], ss, Tail(idle))

\* the sweep runs from `ks`, `idle` to its next suspension: either the await in
\* the cleanup of the next idle kernel, or its end, where the lock is released
\* and _cleanup_loop sleeps again
SweepRun(ks, idle, snap) ==
    LET r == SecondLoop(ks, sess, idle) IN
    /\ kernels' = r.ks
    /\ idle_kernels' = r.idle
    /\ acquired' = [k \in Keys |->
                      IF kernels'[k] = 0 \/ (r.idle # <<>> /\ k = Head(r.idle))
                      THEN 0 ELSE acquired[k]]
    /\ IF r.idle = <<>>
       THEN /\ lock' = "free"
            /\ sweepPc' = "sleep"
            /\ sweepSnap' = [k \in Keys |-> 0]
            /\ sess' = gc(sess, kernels', cheld)
            /\ last' = [NoEvent EXCEPT !.op = "sweep_end"]
       ELSE /\ lock' = "sweep"
            /\ sweepPc' = "sweep_teardown"
            /\ sweepSnap' = snap
            /\ sess' = gc([sess EXCEPT ![r.ks[Head(r.idle)]] = cleanup(@)],
                          kernels', cheld)
            /\ last' = NoEvent

\* the first loop of _cleanup_idle_kernels (lines 117-122)
idle_of(ks, t) ==
    LET idle(k) == is_idle(t, sess[ks[k]]) IN SelectSeq(items(ks), idle)

\* _cleanup_loop wakes up, _cleanup_idle_kernels reads the clock (line 117),
\* takes the lock and scans the map
SweepStart ==
    /\ sweepPc = "sleep"
    /\ lock_available
    /\ SweepRun(kernels, idle_of(kernels, now), kernels)
    /\ UNCHANGED << nextId, now, clientVars, lifeVars >>
    /\ UNCHANGED extVars

\* the teardown of the idle kernel returns, its entry is deleted (line 127) and
\* the loop goes on; or it raises: the exception leaves _cleanup_idle_kernels,
\* releases the lock and is logged by _cleanup_loop (lines 112-113), which
\* sleeps again
SweepTeardownEnd(ok) ==
    LET key == Head(idle_kernels) IN
    /\ sweepPc = "sweep_teardown"
    /\ IF ok
       THEN SweepRun([kernels EXCEPT ![key] = 0], Tail(idle_kernels), sweepSnap)
       ELSE /\ lock' = "free"
            /\ idle_kernels' = <<>>
            /\ sweepPc' = "sleep"
            /\ sweepSnap' = [k \in Keys |-> 0]
            /\ last' = [NoEvent EXCEPT !.op = "sweep_end", !.key = key,
                                       !.sid = kernels[key], !.raised = TRUE,
                                       !.tdfail = TRUE]
            /\ UNCHANGED << kernels, sess, acquired >>
    /\ UNCHANGED << nextId, now, clientVars, lifeVars >>
    /\ UNCHANGED extVars

\* ---------------------------------------------------------------- start / stop
\* start(): plugin_manager.initialize() and the creation of the sweep task
\* (lines 76-83); main.py calls it before the first request is served
Start ==
    /\ phase = "new"
    /\ initialized' = TRUE
    /\ sweepPc' = "sleep"
    /\ phase' = "running"
    /\ last' = NoEvent
    /\ UNCHANGED << kernels, sess, nextId, lock, now, clientVars,
                    idle_kernels, sweepSnap, stopPending, acquired >>
    /\ UNCHANGED extVars

\* stop() up to `await asyncio.gather(...)` (lines 85-95).  main.py calls it in
\* the shutdown half of the lifespan, when no request is in flight.  The sweep
\* task is cancelled wherever it is suspended, which releases the lock if it
\* holds it; then stop takes the lock and every cleanup() of the gather clears
\* its kernel's flag and awaits the teardown
StopBegin ==
    /\ phase = "running"
    /\ \A c \in Clients : pc[c] = "idle"
    /\ sweepPc' = "off"
    /\ idle_kernels' = <<>>
    /\ sweepSnap' = [k \in Keys |-> 0]
    /\ lock' = "stop"
    /\ stopPending' = { i \in Referenced(kernels, cheld) : sess[i].is_active }
    /\ sess' = [i \in SessionIds |->
                  IF i \in Referenced(kernels, cheld) THEN cleanup(sess[i]) ELSE sess[i]]
    /\ acquired' = [k \in Keys |-> 0]
    /\ phase' = "stop_gather"
    /\ last' = NoEvent
    /\ UNCHANGED << kernels, nextId, now, initialized, clientVars >>
    /\ UNCHANGED extVars

\* the gather returns; `failed` are the teardowns that raised.  The map is
\* cleared and the lock released (lines 95-96); were the gather to raise, the
\* exception would leave stop() with the map as it is
StopGatherEnd(failed) ==
    /\ phase = "stop_gather"
    /\ failed \subseteq stopPending
    /\ lock' = "free"
    /\ IF gather_raises(failed)
       THEN /\ phase' = "stopped"
            /\ stopPending' = {}
            /\ last' = [NoEvent EXCEPT !.op = "stop_end", !.raised = TRUE,
                                       !.tdfail = TRUE]
            /\ UNCHANGED << kernels, sess >>
       ELSE /\ kernels' = [k \in Keys |-> 0]
            /\ phase' = "stop_plugins"
            /\ stopPending' = failed
            /\ sess' = gc(sess, kernels', cheld)
            /\ last' = [NoEvent EXCEPT !.op = "stop_cleared", !.tdfail = (failed # {})]
    /\ UNCHANGED << nextId, now, initialized, clientVars, sweepVars, acquired >>
    /\ UNCHANGED extVars

\* plugin_manager.cleanup() and the return of stop() (lines 98-102)
StopPlugins ==
    /\ phase = "stop_plugins"
    /\ initialized' = FALSE
    /\ phase' = "stopped"
    /\ stopPending' = {}
    /\ last' = [NoEvent EXCEPT !.op = "stop_end", !.tdfail = (stopPending # {})]
    /\ UNCHANGED << kernels, sess, nextId, lock, now,
                    clientVars, sweepVars, acquired >>
    /\ UNCHANGED extVars

\* ---------------------------------------------------------------- specification
Next ==
    \/ Tick
    \/ \E c \in Clients, p \in Principals : AcquireExisting(c, p)
    \/ \E c \in Clients, p \in Principals : AcquireCreate(c, p)
    \/ \E c \in Clients : AcquireInsert(c)
    \/ \E c \in Clients : UseOk(c)
    \/ \E c \in Clients, e \in Errors, m \in Modes : UseError(c, e, m)
    \/ \E c \in Clients, ok \in BOOLEAN : FatalTeardownEnd(c, ok)
    \/ \E c \in Clients, u \in UserIds : RemoveLock(c, u)
    \/ \E c \in Clients, ok \in BOOLEAN : RemoveTeardownEnd(c, ok)
    \/ SweepStart
    \/ \E ok \in BOOLEAN : SweepTeardownEnd(ok)
    \/ Start
    \/ StopBegin
    \/ \E failed \in SUBSET SessionIds : StopGatherEnd(failed)
    \/ StopPlugins

Spec == Init /\ [][Next]_vars

\* ---------------------------------------------------------------- properties
\* the sessions a get_kernel call has constructed and not yet inserted
UnderConstruction == { cheld[c] : c \in { d \in Clients : pc[d] = "initializing" } }

\* C1: in every reachable state at most one session per key has its liveness
\* flag set: two distinct sessions of one key are never both live, and a live
\* session is either the one the map holds for its key or one still under
\* construction, so every session that has left the map has its flag cleared
OneLiveSessionPerKey ==
    /\ \A i, j \in SessionIds :
         (i # j /\ sess[i].is_active /\ sess[j].is_active)
            => sess[i].user_id # sess[j].user_id
    /\ \A i \in SessionIds :
         sess[i].is_active =>
            \/ kernels[sess[i].user_id] = i
            \/ i \in UnderConstruction

\* a caller still holds a session that has left the map, with its flag
\* cleared, while the map holds a new live session for the same key
C1Witness ==
    \E c \in Clients :
       /\ pc[c] = "using"
       /\ kernels[ckey[c]] # 0
       /\ kernels[ckey[c]] # cheld[c]
       /\ sess[kernels[ckey[c]]].is_active
       /\ ~ sess[cheld[c]].is_active

\* C2: an acquire never hands a principal a session that was constructed for
\* a principal with another (user id, tenant id) pair
NoSessionSharedAcrossPrincipals ==
    last.op = "acquire" =>
       /\ sess[last.sid].user_id = last.key
       /\ sess[last.sid].tenant_id = last.tenant

\* the map as it was when the running sweep scanned it
sweep_start_map == IF sweepPc = "sweep_teardown" THEN sweepSnap ELSE kernels

\* C3: when a sweep with threshold MaxIdleTime ends, every session of the map
\* it scanned whose time since last access is at least the threshold is absent
\* and every younger one is still in the map as the same instance
SweepEvictsExactlyTheIdle ==
    [][ last'.op = "sweep_end" =>
          \A k \in Keys :
             LET i == sweep_start_map[k] IN
             i # 0 =>
                IF kernels[k] = i
                THEN IF now - sess[i].last_accessed >= MaxIdleTime
                     THEN kernels'[k] # i
                     ELSE kernels'[k] = i
                ELSE kernels'[k] # i ]_vars

\* the keys whose session a task is tearing down
teardown_keys ==
    { ckey[c] : c \in { d \in Clients : pc[d] \in {"fatal_teardown", "remove_teardown"} } }
    \cup (IF sweepPc = "sweep_teardown" THEN { Head(idle_kernels) } ELSE {})

\* the keys the running sweep found idle and has not removed yet
sweep_todo == { idle_kernels[n] : n \in 1 .. Len(idle_kernels) }

ConnectionErrorEvicts ==
    [][ (last'.op = "call_end" /\ last'.err = "ConnectionError") =>
          \A c \in Clients :
             (pc[c] # "idle" /\ pc'[c] = "idle") =>
                /\ kernels'[ckey[c]] # cheld[c]
                /\ ~ sess'[cheld[c]].is_active ]_vars

\* what a caller's error leaves alone: the map, and every session of the map
pool_unchanged ==
    /\ kernels' = kernels
    /\ \A k \in Keys : kernels[k] # 0 => sess'[kernels[k]] = sess[kernels[k]]

\* C6, as the code has it: when a caller's use of its session ends with an
\* exception that is neither a RuntimeError nor a ConnectionError, the map is
\* unchanged and every session of the map is the same instance with the same
\* liveness flag
NonCriticalErrorKeepsPool ==
    [][ ( /\ last'.op = "call_end"
          /\ last'.err \in Errors \ {"RuntimeError", "ConnectionError"} )
        => pool_unchanged ]_vars

\* a buffered completion ended with an exception of another class while the
\* only session ever constructed is in the map with its flag set
C6Witness ==
    /\ last.op = "call_end"
    /\ last.err = "Other"
    /\ last.mode = "buffered"
    /\ nextId = 2
    /\ \E k \in Keys : kernels[k] = 1 /\ sess[1].is_active

\* C6, as the claim has it: when a caller's use of its session ends with an
\* exception that is not a ConnectionError, the map and its sessions are
\* unchanged
NonConnectionErrorKeepsPool ==
    [][ (last'.op = "call_end" /\ last'.err \in Errors \ {"ConnectionError"})
        => pool_unchanged ]_vars

\* the tasks inside a section the pool lock guards
in_locked_section ==
    { c \in Clients : pc[c] \in {"initializing", "fatal_teardown", "remove_teardown"} }
    \cup (IF sweepPc = "sweep_teardown" THEN {"sweep"} ELSE {})
    \cup (IF phase = "stop_gather" THEN {"stop"} ELSE {})

\* C7: at most one task is inside a locked section, and it is the holder of
\* the lock; while an acquire is between its check and its insertion nobody
\* tears down or removes a session, its key has no entry, and no other acquire
\* constructs a session
MapMutationsExclusive ==
    /\ Cardinality(in_locked_section) <= 1
    /\ \A t \in in_locked_section : lock = t
    /\ \A c \in Clients :
         pc[c] = "initializing" =>
            /\ kernels[ckey[c]] = 0
            /\ sweepPc # "sweep_teardown"
            /\ \A d \in Clients \ {c} :
                 pc[d] \notin {"initializing", "fatal_teardown", "remove_teardown"}

\* an acquire is between its check and its insertion while another caller
\* uses a session of the map that the next sweep will find idle
C7Witness ==
    \E c, d \in Clients :
       /\ pc[c] = "initializing"
       /\ pc[d] = "using"
       /\ kernels[ckey[d]] = cheld[d]
       /\ is_idle(now, sess[cheld[d]])
       /\ sweepPc = "sleep"

\* C8: an acquire for a key for which a session was handed out before, with no
\* sweep eviction, remove, release or stop acting on the key since, returns
\* that session
AcquireTwiceSameInstance ==
    (last.op = "acquire" /\ last.prev # 0) => last.sid = last.prev

\* a second acquire returned the session the first caller still uses
C8Witness ==
    /\ last.op = "acquire"
    /\ last.prev = last.sid
    /\ \A c \in Clients : pc[c] = "using" /\ cheld[c] = last.sid

StopTearsDownAll ==
    /\ phase \in {"stop_gather", "stop_plugins", "stopped"} =>
          \A i \in SessionIds : ~ sess[i].is_active
    /\ phase \in {"stop_plugins", "stopped"} => \A k \in Keys : kernels[k] = 0
    /\ last.op = "stop_end" => ~ last.raised

\* stop() returned after the teardown of a session failed
C10Witness ==
    /\ last.op = "stop_end"
    /\ last.tdfail
    /\ ~ last.raised
    /\ phase = "stopped"
    /\ nextId > 1

\* ---------------------------------------------------------------- PluginManager
\* the pool's variables other than PluginManager._initialized
poolRest == << kernels, sess, nextId, lock, now, phase,
               pc, ckey, cheld, cerr,
               sweepPc, idle_kernels, sweepSnap, stopPending,
               acquired, last >>

\* a lock that never makes anybody wait
pm_lock_never_held == TRUE

\* `async with self._lock` of PluginManager proceeds only when nobody holds it
pm_lock_available == pmLock = "free"

\* initialize() up to `await context7_plugin.connect()` (lines 31-73): with the
\* flag set the call returns at once; otherwise the body starts, the core
\* plugins are created and the connection of the MCP plugin is awaited
PluginInitialize(c) ==
    /\ pmPc[c] = "idle"
    /\ pm_lock_available
    /\ init_calls < MaxCalls
    /\ init_calls' = init_calls + 1
    /\ IF initialized
       THEN UNCHANGED << initialized, pmLock, pmPc, core_plugins, mcp_plugins,
                         body_runs, epoch_runs >>
       ELSE /\ pmLock' = c
            /\ pmPc' = [pmPc EXCEPT ![c] = "connecting"]
            /\ core_plugins' = TRUE
            /\ body_runs' = body_runs + 1
            /\ epoch_runs' = epoch_runs + 1
            /\ UNCHANGED << initialized, mcp_plugins >>
    /\ UNCHANGED << poolRest, streamVars, settingsVars, utilVars >>

\* the connection is made and the plugin stored (line 74), or connect() raised
\* and the exception was logged (lines 78-79); the flag is set in both cases
\* (line 41) and the lock released
PluginInitializeEnd(c, ok) ==
    /\ pmPc[c] = "connecting"
    /\ mcp_plugins' = ok
    /\ initialized' = TRUE
    /\ pmLock' = "free"
    /\ pmPc' = [pmPc EXCEPT ![c] = "idle"]
    /\ UNCHANGED << core_plugins, init_calls, body_runs, epoch_runs, poolRest, streamVars, settingsVars, utilVars >>

\* cleanup() (lines 89-101): with a connected plugin its close() is awaited
\* under the lock; without one the dict is cleared and the flag reset at once
PluginCleanup(c) ==
    /\ pmPc[c] = "idle"
    /\ pm_lock_available
    /\ IF mcp_plugins
       THEN /\ pmLock' = c
            /\ pmPc' = [pmPc EXCEPT ![c] = "closing"]
            /\ UNCHANGED << initialized, mcp_plugins, epoch_runs >>
       ELSE /\ initialized' = FALSE
            /\ epoch_runs' = 0
            /\ UNCHANGED << pmLock, pmPc, mcp_plugins >>
    /\ UNCHANGED << core_plugins, init_calls, body_runs, poolRest, streamVars, settingsVars, utilVars >>

\* close() returned or raised (lines 94-97); the dict is cleared, the flag
\* reset and the lock released (lines 99-101)
PluginCleanupEnd(c) ==
    /\ pmPc[c] = "closing"
    /\ mcp_plugins' = FALSE
    /\ initialized' = FALSE
    /\ epoch_runs' = 0
    /\ pmLock' = "free"
    /\ pmPc' = [pmPc EXCEPT ![c] = "idle"]
    /\ UNCHANGED << core_plugins, init_calls, body_runs, poolRest, streamVars, settingsVars, utilVars >>

PluginNext ==
    \/ \E c \in Clients : PluginInitialize(c)
    \/ \E c \in Clients, ok \in BOOLEAN : PluginInitializeEnd(c, ok)
    \/ \E c \in Clients : PluginCleanup(c)
    \/ \E c \in Clients : PluginCleanupEnd(c)

\* any number of tasks calling initialize() and cleanup() in any order
SpecPlugins == Init /\ [][PluginNext]_<< initialized, pmVars >>

\* C11, as the code has it: between two completed cleanup() calls (and before
\* the first) the body of initialize() is entered at most once, whatever the
\* number and interleaving of the initialize() calls, and never while the flag
\* is set; a cleanup() resets the flag, so the initialize() of the next start
\* runs the body again
InitBodyOncePerEpoch ==
    /\ epoch_runs <= 1
    /\ Cardinality({ c \in Clients : pmPc[c] = "connecting" }) <= 1
    /\ initialized => \A c \in Clients : pmPc[c] # "connecting"

\* three initialize() calls were made and a cleanup() came between two of
\* them: the body ran once before the cleanup() and once after it, and not
\* for the remaining call
C11Witness ==
    /\ initialized
    /\ init_calls = 3
    /\ body_runs = 2
    /\ epoch_runs = 1
    /\ \A c \in Clients : pmPc[c] = "idle"

\* C11, as the claim has it: the body of initialize() is entered at most once
\* in the lifetime of the process
InitBodyOncePerProcess == body_runs <= 1

\* ---------------------------------------------------------------------
\* SemanticKernelManager.chat_completion_streaming and the transport
\* generator generate_stream that consumes it
\* ---------------------------------------------------------------------

\* texts are sequences of characters, so that formatting is concatenation
\* the invocations a provider partial can carry: a function name and the
\* argument text (a JSON object); the two differ in the arguments only
Invocations ==
    { [name |-> << "f" >>, arguments |-> << "{", "}" >>],
      [name |-> << "f" >>, arguments |-> << "{", "a", "}" >>] }

\* an invocation item of a partial: a function call (a FunctionCall or
\* ToolCall item, or an entry of one of the probed attributes), with its
\* result ("r") or without one yet ("null")
Items == { [type |-> "FunctionCall", name |-> i.name, arguments |-> i.arguments,
            result |-> r] : i \in Invocations, r \in { "null", "r" } }

\* a FunctionResult item, whose value can be None as well
ResultItems == { [type |-> "FunctionResult", name |-> i.name, arguments |-> i.arguments,
                  result |-> r] : i \in Invocations, r \in { "null", "r" } }

ItemLists == { << >> } \cup { << i >> : i \in Items }
                       \cup { << i, j >> : i \in Items, j \in Items }

ToolItemLists ==
    { << >> } \cup { << i >> : i \in Items \cup ResultItems }
              \cup { << i, j >> : i \in Items \cup ResultItems, j \in Items \cup ResultItems }

FinishReasons == { "none", "stop", "tool_calls" }

\* the values a provider has for the state "the model is calling tools":
\* "tool_calls" and the older "function_call"
ToolCallStates == { "tool_calls", "function_call" }

\* a partial of the provider's stream: its text ("" or some text), its finish
\* reason ("none" for None) and the invocation items found on it
Partials == [content : { "", "x" }, finish_reason : FinishReasons, items : ItemLists]

\* the partials of a turn that calls tools: no text, any item type, any of
\* the tool-call states as finish reason
ToolPartials ==
    [content : { "" }, finish_reason : { "none" } \cup ToolCallStates, items : ToolItemLists]

\* what str(e) of a provider failure contains, lower-cased (lines 360-363)
ErrorMessages == SUBSET { "content", "filter", "policy" }

\* lines 243-320: a function call is collected when its result is not None
\* (lines 253, 286, 305); a FunctionResult item is collected whatever its
\* value is (lines 263-275); the order is the order they are found in
RECURSIVE collect(_)
collect(its) ==
    IF its = << >> THEN << >>
    ELSE LET h == Head(its)
         IN (IF h.type = "FunctionResult" \/ h.result # "null"
             THEN << [name |-> h.name, arguments |-> h.arguments, result |-> h.result] >>
             ELSE << >>)
            \o collect(Tail(its))

\* the (name, arguments) pair of a collected invocation
pair(func_call) == [name |-> func_call.name, arguments |-> func_call.arguments]

\* line 325: call_id = f"{func_call['name']}-{func_call['arguments']}"
call_id(func_call) == func_call.name \o << "-" >> \o func_call.arguments

already_sent_never(id, sent) == FALSE

\* line 326: call_id not in sent_function_calls, negated
already_sent(id, sent) == id \in sent

\* lines 323-328: the loop that keeps the invocations whose call_id is new and
\* records their call_id; returns the kept invocations and the set afterwards
RECURSIVE unique_function_calls(_, _)
unique_function_calls(function_calls, sent) ==
    IF function_calls = << >> THEN [unique |-> << >>, sent |-> sent]
    ELSE LET h    == Head(function_calls)
             dup  == already_sent(call_id(h), sent)
             rest == unique_function_calls(Tail(function_calls),
                                           IF dup THEN sent ELSE sent \cup { call_id(h) })
         IN [unique |-> (IF dup THEN << >> ELSE << h >>) \o rest.unique,
             sent   |-> rest.sent]

\* lines 330-333
finish_reason(p, unique) ==
    IF p.finish_reason = "tool_calls" /\ unique # << >> THEN "tool_calls"
    ELSE p.finish_reason

\* line 336: if stream_message.content or unique_function_calls
yields_chunk(p, unique) == p.content # "" \/ unique # << >>

\* lines 337-342
chunk_data(p, unique) ==
    [content |-> p.content, function_calls |-> unique,
     finish_reason |-> finish_reason(p, unique)]

error_chunks_none(msg) == << >>

\* lines 360-371: the chunks the except clause yields for an exception whose
\* message contains the words msg
error_chunks(msg) ==
    IF "content" \in msg /\ ("filter" \in msg \/ "policy" \in msg)
    THEN << [content |-> "blocked", function_calls |-> << >>,
             finish_reason |-> "content_filter"] >>
    ELSE << [content |-> "Error", function_calls |-> << >>,
             finish_reason |-> "error"] >>

\* generate_stream, lines 69-71: one "data:" event for each chunk received
RECURSIVE data_events(_)
data_events(cs) == IF cs = << >> THEN << >> ELSE << "chunk" >> \o data_events(Tail(cs))

except_events_no_sentinel == << "error" >>

\* generate_stream, lines 75-84: the error event and the sentinel
except_events == << "error", "DONE" >>

\* one partial arrives from the provider (lines 230-344) and, when a chunk is
\* yielded for it, generate_stream encodes it (lines 69-71); enc says whether
\* json.dumps accepts the chunk
StreamPartial(p, enc) ==
    /\ stream_pc = "open"
    /\ partials_seen < MaxPartials
    /\ LET function_calls == collect(p.items)
           d == unique_function_calls(function_calls, sent_function_calls)
       IN /\ sent_function_calls' = d.sent
          /\ completed' = completed \cup { pair(function_calls[i]) : i \in DOMAIN function_calls }
          /\ received' = received + Len(function_calls)
          /\ IF yields_chunk(p, d.unique)
             THEN /\ chunks' = Append(chunks, chunk_data(p, d.unique))
                  /\ IF enc
                     THEN /\ events' = Append(events, "chunk")
                          /\ stream_pc' = "open"
                     ELSE /\ events' = events \o except_events
                          /\ stream_pc' = "closed"
             ELSE /\ enc
                  /\ UNCHANGED << chunks, events, stream_pc >>
    /\ partials_seen' = partials_seen + 1
    /\ provider_finish' = p.finish_reason
    /\ UNCHANGED << vars, pmVars, settingsVars, utilVars >>

\* the provider's stream ends: the generator returns and generate_stream
\* writes the sentinel (line 73); a provider ends its stream with a partial
\* that carries a finish reason
StreamEnd ==
    /\ stream_pc = "open"
    /\ provider_finish # "none"
    /\ stream_pc' = "ended"
    /\ events' = Append(events, "DONE")
    /\ UNCHANGED << sent_function_calls, chunks, partials_seen, provider_finish, completed, received >>
    /\ UNCHANGED << vars, pmVars, settingsVars, utilVars >>

\* the provider, or the setup before the first partial, throws an exception
\* with message msg: the except clause (lines 346-371) yields its chunk, the
\* generator returns and generate_stream writes the sentinel
ProviderFails(msg) ==
    /\ stream_pc = "open"
    /\ chunks' = chunks \o error_chunks(msg)
    /\ events' = events \o data_events(error_chunks(msg)) \o << "DONE" >>
    /\ stream_pc' = "handled"
    /\ UNCHANGED << sent_function_calls, partials_seen, provider_finish, completed, received >>
    /\ UNCHANGED << vars, pmVars, settingsVars, utilVars >>

\* ai_service.chat_completion_streaming raises while it acquires the session
\* (ai_service.py line 77), before the orchestrator runs: generate_stream's
\* except clause writes the error event and the sentinel
AcquireFails ==
    /\ stream_pc = "open"
    /\ partials_seen = 0
    /\ events' = events \o except_events
    /\ stream_pc' = "closed"
    /\ UNCHANGED << sent_function_calls, chunks, partials_seen, provider_finish, completed, received >>
    /\ UNCHANGED << vars, pmVars, settingsVars, utilVars >>

StreamNext ==
    \/ \E p \in Partials, enc \in BOOLEAN : StreamPartial(p, enc)
    \/ StreamEnd
    \/ \E msg \in ErrorMessages : ProviderFails(msg)
    \/ AcquireFails

\* one streaming turn, for every sequence of provider partials
SpecStream == Init /\ [][StreamNext]_streamVars

StreamToolsNext ==
    \/ \E p \in ToolPartials, enc \in BOOLEAN : StreamPartial(p, enc)
    \/ StreamEnd
    \/ \E msg \in ErrorMessages : ProviderFails(msg)
    \/ AcquireFails

\* one streaming turn in which the model calls tools: partials without text,
\* with items of every probed type and every tool-call state
SpecStreamTools == Init /\ [][StreamToolsNext]_streamVars

\* the (name, arguments) pairs carried by a sequence of chunks, in the order
\* emitted
RECURSIVE emitted_calls(_)
emitted_calls(cs) ==
    IF cs = << >> THEN << >>
    ELSE [i \in DOMAIN Head(cs).function_calls |-> pair(Head(cs).function_calls[i])]
         \o emitted_calls(Tail(cs))

\* C12: within one turn no (name, arguments) pair is carried by the emitted
\* chunks more than once, every pair received with a result is carried by
\* them, and a pair is carried by the chunk emitted for the first partial
\* that has it with a result
EachInvocationEmittedOnce ==
    /\ [](LET e == emitted_calls(chunks)
          IN /\ \A i, j \in DOMAIN e : e[i] = e[j] => i = j
             /\ { e[i] : i \in DOMAIN e } = completed)
    /\ [][\A c \in completed' \ completed :
             /\ Len(chunks') = Len(chunks) + 1
             /\ LET fc == chunks'[Len(chunks')].function_calls
                IN \E i \in DOMAIN fc : pair(fc[i]) = c]_streamVars

\* the same invocation came with a result four times in three partials, so
\* in several partials and twice inside one of them, and the chunks carry it
\* once
C12Witness ==
    /\ partials_seen = 3
    /\ received = 4
    /\ Cardinality(completed) = 1
    /\ Len(emitted_calls(chunks)) = 1

\* C13: when the provider, or the setup before the first partial, throws, the
\* generator does not raise: the chunks yielded before stay as they were,
\* exactly one more chunk follows, with finish reason "error" or
\* "content_filter" and no invocation, and nothing is yielded after it
ProviderFailureYieldsOneErrorChunk ==
    /\ [][(stream_pc = "open" /\ stream_pc' = "handled") =>
             /\ Len(chunks') = Len(chunks) + 1
             /\ SubSeq(chunks', 1, Len(chunks)) = chunks
             /\ chunks'[Len(chunks')].finish_reason \in { "error", "content_filter" }
             /\ chunks'[Len(chunks')].function_calls = << >>]_streamVars
    /\ [][stream_pc = "handled" => UNCHANGED << stream_pc, chunks >>]_streamVars

\* the provider threw after two chunks had been yielded, with a message that
\* names the content filter: three chunks, the last one the synthetic one
C13Witness ==
    /\ stream_pc = "handled"
    /\ Len(chunks) = 3
    /\ chunks[1].finish_reason = "none"
    /\ chunks[2].function_calls # << >>
    /\ chunks[3].finish_reason = "content_filter"

\* C14: in a turn that has ended and yielded at least one chunk, the last
\* chunk yielded has a finish reason, whatever the provider's partials were
TerminalChunkHasFinishReason ==
    (stream_pc \in { "ended", "handled" } /\ chunks # << >>) =>
        chunks[Len(chunks)].finish_reason # "none"

\* C15: as long as the transport stream is running it holds no sentinel; once
\* it is over, however it ended (the service stream completed, the session
\* could not be acquired, a chunk could not be encoded), it holds exactly one
\* sentinel, as its last event, and nothing is written after it
ExactlyOneSentinelLast ==
    /\ [](LET n == Cardinality({ i \in DOMAIN events : events[i] = "DONE" })
          IN IF stream_pc = "open"
             THEN n = 0
             ELSE n = 1 /\ events[Len(events)] = "DONE")
    /\ [][stream_pc # "open" => UNCHANGED events]_streamVars

\* the second chunk of a turn could not be encoded: the first chunk's event,
\* the error event and the sentinel were written, and the stream is over
C15Witness ==
    /\ stream_pc = "closed"
    /\ Len(chunks) = 2
    /\ events = << "chunk", "error", "DONE" >>

\* ---------------------------------------------------------------------
\* the settings resolver: resolve_setting over the table settings_v4
\* ---------------------------------------------------------------------

\* the scopes of the rows considered: organization_id, domain_id,
\* environment_id, audience_id, each NULL or the id 1
Scopes ==
    { << NULL, NULL, NULL, NULL >>,      \* global
      << NULL, NULL, 1, NULL >>,         \* environment only
      << 1, NULL, NULL, NULL >>,         \* organization only
      << NULL, 1, NULL, NULL >>,         \* domain only
      << 1, NULL, 1, NULL >>,            \* organization and environment
      << NULL, NULL, NULL, 1 >> }        \* audience only

row(key, scope, secret, active, t) ==
    [key |-> key,
     organization_id |-> scope[1], domain_id |-> scope[2],
     environment_id |-> scope[3], audience_id |-> scope[4],
     is_secret |-> secret, is_active |-> active, updated_at |-> t]

\* the rows the store can hold: for the key "k" every scope as an active
\* non-secret row updated at 1 or at 2, a secret global and organization
\* row, an inactive global and audience row; for the key "j" a global and an
\* organization row
StoredRows ==
    { row("k", sc, FALSE, TRUE, t) : sc \in Scopes, t \in { 1, 2 } }
    \cup { row("k", sc, TRUE, TRUE, 2) :
           sc \in { << NULL, NULL, NULL, NULL >>, << 1, NULL, NULL, NULL >> } }
    \cup { row("k", sc, FALSE, FALSE, 2) :
           sc \in { << NULL, NULL, NULL, NULL >>, << NULL, NULL, NULL, 1 >> } }
    \cup { row("j", sc, FALSE, TRUE, 2) :
           sc \in { << NULL, NULL, NULL, NULL >>, << 1, NULL, NULL, NULL >> } }

\* the column specificity, computed by the store (models.py lines 137-146)
specificity(r) ==
    (IF r.organization_id # NULL THEN 2 ELSE 0)
    + (IF r.domain_id # NULL THEN 3 ELSE 0)
    + (IF r.environment_id # NULL THEN 1 ELSE 0)
    + (IF r.audience_id # NULL THEN 10 ELSE 0)

\* the rows of users_v4 a request's oid can name: organization, domain and
\* environment of the user
UserRecords ==
    [u1 |-> << 1, NULL, 1 >>, u2 |-> << 2, 2, 1 >>,
     u3 |-> << 1, 1, 1 >>, u4 |-> << NULL, 1, NULL >>]

\* a resolve request as the lookups see it: the key, what the lookup of the
\* user gives (no oid or no record, a record, or an exception) and what the
\* lookup of the audience code gives (no active audience, the audience 1, or
\* an exception)
ResolveRequests ==
    [key : { "k" },
     user : { "none", "u1", "u2", "u3", "u4", "fails" },
     audience : { "none", "a1", "fails" }]

\* lines 272-281: the user's dimensions, None each when there is no record
\* or the lookup raised
user_dims(req) ==
    IF req.user \in { "none", "fails" } THEN << NULL, NULL, NULL >>
    ELSE UserRecords[req.user]

\* lines 284-291: the audience lookup is not inside a try of its own, so its
\* exception reaches the handler's except clause (lines 361-363)
audience_lookup_raises(req) == req.audience = "fails"

\* lines 284-291
audience_of(req) == IF req.audience = "a1" THEN 1 ELSE NULL

eligible_any(r) == TRUE

\* lines 299-300: SettingsV4.is_active, ~SettingsV4.is_secret
eligible(r) == r.is_active /\ ~r.is_secret

scope_matches_exact(r, org, dom, env, aud) ==
    /\ r.organization_id = org
    /\ r.domain_id = dom
    /\ r.environment_id = env
    /\ r.audience_id = aud

\* lines 302-305: a dimension of a row matches when it is NULL or equal to
\* the caller's value
scope_matches(r, org, dom, env, aud) ==
    /\ (r.organization_id = NULL \/ r.organization_id = org)
    /\ (r.domain_id = NULL \/ r.domain_id = dom)
    /\ (r.environment_id = NULL \/ r.environment_id = env)
    /\ (r.audience_id = NULL \/ r.audience_id = aud)

\* lines 295-306: the ids of the rows the query's filter selects
candidates(req) ==
    LET u == user_dims(req)
    IN { i \in SettingIds :
           /\ settings[i] # NoRow
           /\ settings[i].key = req.key
           /\ eligible(settings[i])
           /\ scope_matches(settings[i], u[1], u[2], u[3], audience_of(req)) }

sorts_first_latest(a, b) == a.updated_at >= b.updated_at

\* line 307: order_by(specificity.desc().nulls_last(), updated_at.desc());
\* a sorts before b, or the order leaves the two to the store
sorts_first(a, b) ==
    \/ specificity(a) > specificity(b)
    \/ specificity(a) = specificity(b) /\ a.updated_at >= b.updated_at

\* lines 308-312: limit(1) and first(): the rows the query may return
first_rows(ids) ==
    { i \in ids : \A j \in ids : sorts_first(settings[i], settings[j]) }

\* lines 314-326: the parts of the scope description, which the code joins
\* with "+"
scope_desc(r) ==
    LET scope_parts ==
            (IF r.organization_id # NULL THEN << "Organization" >> ELSE << >>)
            \o (IF r.domain_id # NULL THEN << "Domain" >> ELSE << >>)
            \o (IF r.environment_id # NULL THEN << "Environment" >> ELSE << >>)
            \o (IF r.audience_id # NULL THEN << "Audience" >> ELSE << >>)
    IN IF scope_parts # << >> THEN scope_parts ELSE << "Global" >>

HTTP500 == [status |-> "500"]

\* schemas/settings.py lines 57-62: the response model; resolved_payload is
\* declared dict | list | str | int | float | bool, so a None does not
\* validate and the constructor raises, which the handler's except clause
\* (lines 361-363) turns into the status 500
SettingsResolveResponse(req, payload, from, spec, found) ==
    IF payload = NULL THEN HTTP500
    ELSE [status |-> "200", key |-> req.key, resolved_payload |-> payload,
          resolved_from |-> from, specificity |-> spec, found |-> found]

\* resolve_setting (lines 252-363) for one request; the payload of a row is
\* modelled by the id of the row
Resolve(req) ==
    /\ IF audience_lookup_raises(req)
       THEN response' = [request |-> req, answer |-> HTTP500]
       ELSE LET ids == first_rows(candidates(req))
            IN IF ids # {}
               THEN \E i \in ids :
                      response' = [request |-> req,
                                   answer |-> SettingsResolveResponse(
                                       req, i, scope_desc(settings[i]),
                                       specificity(settings[i]), TRUE)]
               ELSE response' = [request |-> req,
                                 answer |-> SettingsResolveResponse(
                                     req, NULL, << "Default (no setting found)" >>, 0, FALSE)]
    /\ UNCHANGED << settings, pending >>
    /\ UNCHANGED << vars, pmVars, streamVars, utilVars >>

\* the store comes to hold one more row, in the first free id
StoreRow(r) ==
    /\ \E i \in SettingIds :
          /\ settings[i] = NoRow
          /\ \A j \in SettingIds : j < i => settings[j] # NoRow
          /\ settings' = [settings EXCEPT ![i] = r]
    /\ response' = NoResponse
    /\ UNCHANGED pending
    /\ UNCHANGED << vars, pmVars, streamVars, utilVars >>

ResolveNext ==
    \/ \E r \in StoredRows : StoreRow(r)
    \/ \E req \in ResolveRequests : Resolve(req)

\* resolve_setting over every table of up to three rows
SpecResolve == Init /\ [][ResolveNext]_settingsVars

\* C16: when rows are candidates for a request that reaches the query, the
\* response is found with one of them, no candidate has a higher specificity
\* than the row returned, and no candidate of the same specificity was
\* updated later
ResolveReturnsMostSpecificLatest ==
    (response # NoResponse /\ response.request.audience # "fails"
       /\ candidates(response.request) # {}) =>
        LET c == candidates(response.request)
            a == response.answer
        IN /\ a.status = "200"
           /\ a.found
           /\ a.resolved_payload \in c
           /\ LET r == settings[a.resolved_payload]
              IN /\ a.specificity = specificity(r)
                 /\ \A j \in c : specificity(settings[j]) <= specificity(r)
                 /\ \A j \in c : specificity(settings[j]) = specificity(r)
                                   => settings[j].updated_at <= r.updated_at

\* the table holds a global, an environment and an organization row of the
\* key, all active and not secret, the global one updated last; the user has
\* the organization and the environment, and the organization row is returned
C16Witness ==
    /\ settings[1] = row("k", << NULL, NULL, NULL, NULL >>, FALSE, TRUE, 2)
    /\ settings[2] = row("k", << NULL, NULL, 1, NULL >>, FALSE, TRUE, 1)
    /\ settings[3] = row("k", << 1, NULL, NULL, NULL >>, FALSE, TRUE, 1)
    /\ response # NoResponse
    /\ response.request = [key |-> "k", user |-> "u1", audience |-> "none"]
    /\ response.answer.status = "200"
    /\ response.answer.resolved_payload = 3
    /\ response.answer.specificity = 2

\* C17: the row returned is never secret and never inactive, and a row of
\* the key that is active, not secret and matches the caller is never hidden
\* by secret or inactive rows: the response is then found
ResolveSkipsSecretAndInactive ==
    (response # NoResponse /\ response.request.audience # "fails") =>
        LET req == response.request
            a   == response.answer
            u   == user_dims(req)
        IN /\ (a.status = "200" /\ a.found) =>
                 /\ ~settings[a.resolved_payload].is_secret
                 /\ settings[a.resolved_payload].is_active
           /\ (\E j \in SettingIds :
                  /\ settings[j] # NoRow
                  /\ settings[j].key = req.key
                  /\ settings[j].is_active
                  /\ ~settings[j].is_secret
                  /\ scope_matches(settings[j], u[1], u[2], u[3], audience_of(req)))
              => (a.status = "200" /\ a.found)

\* the table holds a secret organization row, an inactive audience row and an
\* active global row that is not secret; the caller has the organization and
\* the audience, and the global row is returned as found
C17Witness ==
    /\ settings[1] = row("k", << 1, NULL, NULL, NULL >>, TRUE, TRUE, 2)
    /\ settings[2] = row("k", << NULL, NULL, NULL, 1 >>, FALSE, FALSE, 2)
    /\ settings[3] = row("k", << NULL, NULL, NULL, NULL >>, FALSE, TRUE, 1)
    /\ response # NoResponse
    /\ response.request = [key |-> "k", user |-> "u1", audience |-> "a1"]
    /\ response.answer.status = "200"
    /\ response.answer.found
    /\ response.answer.resolved_payload = 3
    /\ response.answer.specificity = 0

\* C18: when no row is a candidate for the request, the call succeeds with
\* the response found = false, specificity = 0, resolved_payload = null,
\* resolved_from "Default (no setting found)"
NoCandidateGivesNotFound ==
    (response # NoResponse /\ response.request.audience # "fails"
       /\ candidates(response.request) = {}) =>
        /\ response.answer.status = "200"
        /\ ~response.answer.found
        /\ response.answer.specificity = 0
        /\ response.answer.resolved_payload = NULL
        /\ response.answer.resolved_from = << "Default (no setting found)" >>

\* C19: when the lookup of the user or of the audience code raised, the call
\* still succeeds, with the dimensions of that lookup taken as null: found
\* with a candidate when there is one, the not-found response otherwise
LookupFailureStillResolves ==
    (response # NoResponse
       /\ (response.request.user = "fails" \/ response.request.audience = "fails")) =>
        /\ response.answer.status = "200"
        /\ response.answer.found = (candidates(response.request) # {})
        /\ response.answer.found => response.answer.resolved_payload \in candidates(response.request)

\* ---------------------------------------------------------------------
\* create_setting, update_setting and delete_setting over settings_v4
\* ---------------------------------------------------------------------

\* the requests of create_setting considered: key and organization_id, the
\* other scope ids null, is_secret and is_active at their defaults
CreateRequests == [key : { "k", "j" }, organization_id : { NULL, 1 }]

\* the fields a request of update_setting sets (exclude_unset) and their values
UpdateRequests ==
    [field : { "key" }, value : { "k", "j" }]
    \cup [field : { "organization_id" }, value : { NULL, 1 }]
    \cup [field : { "is_active" }, value : BOOLEAN]

\* the table settings_v4 as the migration creates it (lines 122-178) has the
\* primary key on id and four foreign keys; no unique constraint or index
\* covers (key, scope_key), so the store accepts any row
store_accepts(table, r) == TRUE

same_scope(a, b) ==
    /\ a.organization_id = b.organization_id
    /\ a.domain_id = b.domain_id
    /\ a.environment_id = b.environment_id
    /\ a.audience_id = b.audience_id

\* create_setting, lines 102-123: the select for a row of the same key and
\* scope; the handler goes on when there is none
CreateCheck(c, req) ==
    /\ pending[c] = NoRequest
    /\ Cardinality({ i \in SettingIds : settings[i] # NoRow })
         + Cardinality({ d \in Clients : pending[d] # NoRequest }) < Cardinality(SettingIds)
    /\ LET r == row(req.key, << req.organization_id, NULL, NULL, NULL >>, FALSE, TRUE, 1)
       IN ~\E i \in SettingIds :
              settings[i] # NoRow /\ settings[i].key = r.key /\ same_scope(settings[i], r)
    /\ pending' = [pending EXCEPT ![c] = req]
    /\ UNCHANGED << settings, response >>
    /\ UNCHANGED << vars, pmVars, streamVars, utilVars >>

\* create_setting, lines 129-145: the row is added and committed, under a
\* new id, with updated_at the time of the store
CreateCommit(c) ==
    /\ pending[c] # NoRequest
    /\ LET r == row(pending[c].key, << pending[c].organization_id, NULL, NULL, NULL >>,
                    FALSE, TRUE, 1)
       IN /\ store_accepts(settings, r)
          /\ \E i \in SettingIds :
                /\ settings[i] = NoRow
                /\ \A j \in SettingIds : j < i => settings[j] # NoRow
                /\ settings' = [settings EXCEPT ![i] = r]
    /\ pending' = [pending EXCEPT ![c] = NoRequest]
    /\ response' = NoResponse
    /\ UNCHANGED << vars, pmVars, streamVars, utilVars >>

\* update_setting, lines 174-195: the row of the id is read, the field of the
\* request is set on it and the change committed; updated_at becomes the
\* time of the store, later than the creation
UpdateSetting(id, upd) ==
    /\ settings[id] # NoRow
    /\ LET r == [ [settings[id] EXCEPT ![upd.field] = upd.value]
                    EXCEPT !.updated_at = 2 ]
       IN /\ store_accepts(settings, r)
          /\ settings' = [settings EXCEPT ![id] = r]
    /\ response' = NoResponse
    /\ UNCHANGED pending
    /\ UNCHANGED << vars, pmVars, streamVars, utilVars >>

\* delete_setting, lines 223-231
DeleteSetting(id) ==
    /\ settings[id] # NoRow
    /\ settings' = [settings EXCEPT ![id] = NoRow]
    /\ response' = NoResponse
    /\ UNCHANGED pending
    /\ UNCHANGED << vars, pmVars, streamVars, utilVars >>

SettingsNext ==
    \/ \E c \in Clients, req \in CreateRequests : CreateCheck(c, req)
    \/ \E c \in Clients : CreateCommit(c)
    \/ \E id \in SettingIds, upd \in UpdateRequests : UpdateSetting(id, upd)
    \/ \E id \in SettingIds : DeleteSetting(id)

\* any sequence and interleaving of the three requests
SpecSettings == Init /\ [][SettingsNext]_settingsVars

\* C20: no two active rows of settings_v4 have the same key and the same
\* (organization, domain, environment, audience) scope
NoTwoActiveRowsShareKeyAndScope ==
    \A i, j \in SettingIds :
        (/\ i # j
         /\ settings[i] # NoRow /\ settings[j] # NoRow
         /\ settings[i].is_active /\ settings[j].is_active
         /\ settings[i].key = settings[j].key)
        => ~same_scope(settings[i], settings[j])

\* C21: an active row of the key that is not secret is found for a caller
\* exactly when each of its four dimensions is unset or equal to the caller's
\* value: when such a row is in the table the response is found with a row
\* at least as specific, and the row returned is always such a row
CandidateIffUnsetOrEqual ==
    (response # NoResponse /\ response.request.audience # "fails") =>
        LET req == response.request
            a   == response.answer
            caller == user_dims(req) \o << audience_of(req) >>
            dims(r) == << r.organization_id, r.domain_id, r.environment_id, r.audience_id >>
            match(i) ==
                /\ settings[i] # NoRow
                /\ settings[i].key = req.key
                /\ settings[i].is_active
                /\ ~settings[i].is_secret
                /\ \A d \in 1..4 : dims(settings[i])[d] \in { NULL, caller[d] }
        IN /\ \A i \in SettingIds :
                 match(i) => /\ a.status = "200"
                             /\ a.found
                             /\ a.specificity >= specificity(settings[i])
           /\ (a.status = "200" /\ a.found) => match(a.resolved_payload)

\* the table holds one row, scoped on the domain 1 only; a caller whose user
\* record has the domain 1 and neither organization nor environment, with
\* the audience 1, gets that row
C21Witness ==
    /\ settings[1] = row("k", << NULL, 1, NULL, NULL >>, FALSE, TRUE, 1)
    /\ settings[2] = NoRow
    /\ response # NoResponse
    /\ response.request = [key |-> "k", user |-> "u4", audience |-> "a1"]
    /\ response.answer.status = "200"
    /\ response.answer.resolved_payload = 1
    /\ response.answer.specificity = 3

\* the rank of the highest dimension set on a row in the hierarchy
\* Environment < Organization < Domain < Audience of the handler's
\* description (settings.py lines 259-263), 0 for a global row
top_dimension(r) ==
    IF r.audience_id # NULL THEN 4
    ELSE IF r.domain_id # NULL THEN 3
    ELSE IF r.organization_id # NULL THEN 2
    ELSE IF r.environment_id # NULL THEN 1
    ELSE 0

\* C27: a row whose highest dimension ranks above every dimension of another
\* row has the strictly greater specificity and wins over it whenever both
\* are candidates, whatever their update times: the row returned is never
\* outranked by another candidate
HierarchyDecidesResolution ==
    (response # NoResponse /\ response.answer.status = "200" /\ response.answer.found) =>
        \A j \in candidates(response.request) :
            /\ top_dimension(settings[j]) <= top_dimension(settings[response.answer.resolved_payload])
            /\ top_dimension(settings[j]) < top_dimension(settings[response.answer.resolved_payload])
                 => specificity(settings[j]) < specificity(settings[response.answer.resolved_payload])

\* C25: every invocation carried by an emitted chunk has a result that is
\* not null
EmittedInvocationsHaveResult ==
    \A n \in DOMAIN chunks :
        \A i \in DOMAIN chunks[n].function_calls :
            chunks[n].function_calls[i].result # "null"

\* C26: the chunk emitted for a partial has the finish reason "tool_calls"
\* when the partial's finish reason is one of the provider's values for the
\* tool-call state and the chunk carries an invocation, and the partial's
\* finish reason unchanged in every other case
ToolCallStateNormalized ==
    [][(partials_seen' = partials_seen + 1 /\ Len(chunks') = Len(chunks) + 1) =>
          LET c == chunks'[Len(chunks')]
          IN IF provider_finish' \in ToolCallStates /\ c.function_calls # << >>
             THEN c.finish_reason = "tool_calls"
             ELSE c.finish_reason = provider_finish']_streamVars

\* ---------------------------------------------------------------------
\* AIService.generate_title
\* ---------------------------------------------------------------------

\* a text of n characters, blank at the positions in blanks and quoted at
\* the positions in quotes
text(n, blanks, quotes) ==
    [i \in 1..n |-> IF i \in blanks THEN " " ELSE IF i \in quotes THEN "'" ELSE "a"]

\* message contents: empty, short, blank at both ends, exactly the budget,
\* longer than the budget, and longer with a blank as the last character
\* inside the budget
Contents ==
    { text(0, {}, {}), text(3, {}, {}), text(4, { 1, 4 }, {}),
      text(TitleBudget, {}, {}), text(TitleBudget + 5, {}, {}),
      text(TitleBudget + 5, { TitleBudget }, {}) }

\* the roles of chat_messages_v4 (models.py line 277)
Roles == { "user", "assistant", "system" }

Messages == [role : Roles, content : Contents]

\* the conversations passed: one or two messages
Conversations ==
    { << m >> : m \in Messages } \cup { << m, n >> : m \in Messages, n \in Messages }

\* what the provider can answer: nothing, a quoted title with blanks inside
\* the quotes, and a text longer than the budget
ProviderTitles ==
    { text(0, {}, {}), text(6, { 2, 5 }, { 1, 6 }), text(TitleBudget + 5, {}, {}) }

\* s[:n]
take(s, n) == SubSeq(s, 1, IF Len(s) < n THEN Len(s) ELSE n)

\* str.strip("\"'")
RECURSIVE strip_quotes(_)
strip_quotes(s) ==
    IF s # << >> /\ Head(s) = "'" THEN strip_quotes(Tail(s))
    ELSE IF s # << >> /\ s[Len(s)] = "'" THEN strip_quotes(SubSeq(s, 1, Len(s) - 1))
    ELSE s

\* line 169: generated_title.strip("\"'").strip()[:50]
generated_title(content) == take(rstrip(lstrip(strip_quotes(content))), TitleBudget)

fallback_untruncated(msgs) ==
    LET users == SelectSeq(msgs, LAMBDA m : m.role = "user")
    IN IF users # << >> THEN users[1].content ELSE << "Chat Conversation" >>

\* lines 171-177: the title returned by the except clause; the placeholder is
\* a text of one symbol
fallback_title(msgs) ==
    LET users == SelectSeq(msgs, LAMBDA m : m.role = "user")
    IN IF users # << >>
       THEN rstrip(lstrip(take(users[1].content, TitleBudget)))
       ELSE << "Chat Conversation" >>

\* generate_title is called (lines 125-140): the prompt is built from the
\* messages, then get_kernel is entered
TitleCall(msgs) ==
    /\ title_pc = "idle"
    /\ title_pc' = "acquiring"
    /\ title_messages' = msgs
    /\ title_result' = NoResult
    /\ UNCHANGED << vars, pmVars, streamVars, settingsVars, jwksVars, serVars >>

\* get_kernel hands the session over (line 144) and the provider is called
\* (lines 162-166)
TitleAcquired ==
    /\ title_pc = "acquiring"
    /\ title_pc' = "calling"
    /\ UNCHANGED << title_messages, title_result >>
    /\ UNCHANGED << vars, pmVars, streamVars, settingsVars, jwksVars, serVars >>

\* the provider answers with content (lines 168-169)
TitleProviderReturns(content) ==
    /\ title_pc = "calling"
    /\ title_pc' = "done"
    /\ title_result' = [kind |-> "returned", failed |-> FALSE,
                        title |-> generated_title(content)]
    /\ UNCHANGED title_messages
    /\ UNCHANGED << vars, pmVars, streamVars, settingsVars, jwksVars, serVars >>

\* get_kernel or the provider call raises: the except clause (lines 171-177)
TitleFails ==
    /\ title_pc \in { "acquiring", "calling" }
    /\ title_pc' = "done"
    /\ title_result' = [kind |-> "returned", failed |-> TRUE,
                        title |-> fallback_title(title_messages)]
    /\ UNCHANGED title_messages
    /\ UNCHANGED << vars, pmVars, streamVars, settingsVars, jwksVars, serVars >>

\* the caller takes the result; the next call can come
TitleTaken ==
    /\ title_pc = "done"
    /\ title_pc' = "idle"
    /\ title_messages' = << >>
    /\ title_result' = NoResult
    /\ UNCHANGED << vars, pmVars, streamVars, settingsVars, jwksVars, serVars >>

TitleNext ==
    \/ \E msgs \in Conversations : TitleCall(msgs)
    \/ TitleAcquired
    \/ \E content \in ProviderTitles : TitleProviderReturns(content)
    \/ TitleFails
    \/ TitleTaken

\* generate_title for every conversation and every outcome
SpecTitle == Init /\ [][TitleNext]_titleVars

\* C23: a call of generate_title ends by returning a title; when the session
\* or the provider failed, the title is the content of the first message of
\* role user cut to the budget, or the placeholder when no message has the
\* role user
TitleNeverRaises ==
    title_pc = "done" =>
        /\ title_result.kind = "returned"
        /\ Len(title_result.title) <= TitleBudget
        /\ title_result.failed =>
             LET users == { i \in DOMAIN title_messages : title_messages[i].role = "user" }
             IN IF users = {}
                THEN title_result.title = << "Chat Conversation" >>
                ELSE LET first == CHOOSE i \in users : \A j \in users : i <= j
                         cut == take(title_messages[first].content, TitleBudget)
                     IN title_result.title = rstrip(lstrip(cut))

\* the provider failed for a conversation whose first user message, the
\* second message, is longer than the budget: the title is its first 50
\* characters
C23Witness ==
    /\ title_pc = "done"
    /\ title_result.kind = "returned"
    /\ title_result.failed
    /\ Len(title_messages) = 2
    /\ title_messages[1].role = "system"
    /\ title_messages[2].role = "user"
    /\ Len(title_messages[2].content) = TitleBudget + 5
    /\ title_result.title = text(TitleBudget, {}, {})

\* ---------------------------------------------------------------------
\* EntraIDAuth._get_jwks
\* ---------------------------------------------------------------------

\* the key sets the endpoint can serve
KeySets == { 1, 2 }

\* what requests.get can do: serve a key set, or fail (0)
FetchOutcomes == KeySets \cup { 0 }

\* how far the clock moves between two calls
Delays == { 1, cache_duration - 1, cache_duration }

cache_valid_inclusive(cache, cache_time, current_time) ==
    cache # 0 /\ current_time - cache_time <= cache_duration

\* line 52: self._jwks_cache and current_time - self._jwks_cache_time <
\* self._cache_duration
cache_valid(cache, cache_time, current_time) ==
    cache # 0 /\ current_time - cache_time < cache_duration

\* _get_jwks (lines 47-64); outcome is what the endpoint does when asked
GetJwks(outcome) ==
    /\ IF cache_valid(jwks_cache, jwks_cache_time, jwks_now)
       THEN /\ jwks_last' = [called |-> TRUE, fetched |-> FALSE, raised |-> FALSE,
                             result |-> jwks_cache, had |-> jwks_cache,
                             had_time |-> jwks_cache_time, at |-> jwks_now]
            /\ UNCHANGED << jwks_cache, jwks_cache_time >>
       ELSE IF outcome = 0
       THEN /\ jwks_last' = [called |-> TRUE, fetched |-> TRUE, raised |-> TRUE,
                             result |-> 0, had |-> jwks_cache,
                             had_time |-> jwks_cache_time, at |-> jwks_now]
            /\ UNCHANGED << jwks_cache, jwks_cache_time >>
       ELSE /\ jwks_cache' = outcome
            /\ jwks_cache_time' = jwks_now
            /\ jwks_last' = [called |-> TRUE, fetched |-> TRUE, raised |-> FALSE,
                             result |-> outcome, had |-> jwks_cache,
                             had_time |-> jwks_cache_time, at |-> jwks_now]
    /\ UNCHANGED << jwks_now, jwks_ticks >>
    /\ UNCHANGED << vars, pmVars, streamVars, settingsVars, titleVars, serVars >>

\* time passes
JwksTick(d) ==
    /\ jwks_ticks < MaxJwksTicks
    /\ jwks_ticks' = jwks_ticks + 1
    /\ jwks_now' = jwks_now + d
    /\ jwks_last' = NoCall
    /\ UNCHANGED << jwks_cache, jwks_cache_time >>
    /\ UNCHANGED << vars, pmVars, streamVars, settingsVars, titleVars, serVars >>

JwksNext ==
    \/ \E outcome \in FetchOutcomes : GetJwks(outcome)
    \/ \E d \in Delays : JwksTick(d)

\* any sequence of _get_jwks calls over time
SpecJwks == Init /\ [][JwksNext]_jwksVars

\* C24, as the code has it: a call fetches exactly when nothing is cached or
\* the cached key set is at least 3600 seconds old; a fetch that succeeds
\* replaces the cached key set and its time and returns the new key set; a
\* fetch that fails raises and leaves both as they were; a call that does not
\* fetch returns the cached key set and leaves both as they were
FetchIffAbsentOrExpired ==
    jwks_last.called =>
        /\ jwks_last.fetched = (jwks_last.had = 0 \/ jwks_last.at - jwks_last.had_time >= 3600)
        /\ (jwks_last.fetched /\ ~jwks_last.raised) =>
              /\ jwks_cache = jwks_last.result
              /\ jwks_last.result \in KeySets
              /\ jwks_cache_time = jwks_last.at
        /\ (jwks_last.fetched /\ jwks_last.raised) =>
              /\ jwks_cache = jwks_last.had
              /\ jwks_cache_time = jwks_last.had_time
        /\ ~jwks_last.fetched =>
              /\ ~jwks_last.raised
              /\ jwks_last.result = jwks_last.had
              /\ jwks_cache = jwks_last.had
              /\ jwks_cache_time = jwks_last.had_time

\* the key set 1 was cached at 1; the call made exactly 3600 seconds later
\* fetched and cached the key set 2
C24Witness ==
    /\ jwks_last.called
    /\ jwks_last.fetched
    /\ jwks_last.had = 1
    /\ jwks_last.had_time = 1
    /\ jwks_last.at = 1 + cache_duration
    /\ jwks_cache = 2
    /\ jwks_cache_time = 1 + cache_duration

\* C24, as the claim has it: every fetch replaces the cached key set and
\* its time
EveryFetchReplacesCache ==
    (jwks_last.called /\ jwks_last.fetched) =>
        /\ jwks_cache = jwks_last.result
        /\ jwks_cache_time = jwks_last.at

\* ---------------------------------------------------------------------
\* serialize_function_result
\* ---------------------------------------------------------------------

\* values without parts: None, a str / int / float / bool, and an object
\* with none of the probed properties whose str() works or raises
Leaves ==
    { None, [t |-> "primitive"],
      [t |-> "object", str_raises |-> FALSE], [t |-> "object", str_raises |-> TRUE] }

\* the results of depth at most d: a leaf, a list of none or one element, a
\* dict of one string key, and an object with one of the properties text,
\* content, value holding a value of depth d - 1
RECURSIVE Results(_)
Results(d) ==
    IF d = 0 THEN Leaves
    ELSE LET V == Results(d - 1)
         IN Leaves
            \cup { [t |-> "list", items |-> << >>] }
            \cup { [t |-> "list", items |-> << v >>] : v \in V }
            \cup { [t |-> "dict", items |-> << v >>] : v \in V }
            \cup { [t |-> "has", property |-> a, inner |-> v] :
                   a \in { "text", "content", "value" }, v \in V }

AllResults == Results(MaxDepth)

\* lines 23-60; a str() result is [t |-> "str"], the placeholder of line 58
\* is [t |-> "placeholder"]
RECURSIVE serialize_function_result(_)
serialize_function_result(result) ==
    IF result = None THEN None
    ELSE IF result.t = "list" \/ result.t = "dict"
    THEN [t |-> result.t,
          items |-> [i \in DOMAIN result.items |-> serialize_function_result(result.items[i])]]
    ELSE IF result.t = "has" /\ result.property = "text"
    THEN result.inner
    ELSE IF result.t = "has"
    THEN serialize_function_result(result.inner)
    ELSE IF result.t = "object"
    THEN IF result.str_raises THEN [t |-> "placeholder"] ELSE [t |-> "str"]
    ELSE result

\* what json.dumps accepts: None, primitives and strings, and lists and
\* dicts of such values
RECURSIVE json_encodable(_)
json_encodable(v) ==
    IF v.t \in { "none", "primitive", "str", "placeholder" } THEN TRUE
    ELSE IF v.t \in { "list", "dict" }
    THEN \A i \in DOMAIN v.items : json_encodable(v.items[i])
    ELSE FALSE

\* serialize_function_result is applied to a result
Serialize(result) ==
    /\ ser_pc = "idle"
    /\ ser_pc' = "done"
    /\ ser_in' = result
    /\ ser_out' = serialize_function_result(result)
    /\ UNCHANGED << vars, pmVars, streamVars, settingsVars, titleVars, jwksVars >>

\* the caller puts the value into its chunk; the next result can come
SerializeTaken ==
    /\ ser_pc = "done"
    /\ ser_pc' = "idle"
    /\ ser_in' = None
    /\ ser_out' = None
    /\ UNCHANGED << vars, pmVars, streamVars, settingsVars, titleVars, jwksVars >>

SerializeNext ==
    \/ \E result \in AllResults : Serialize(result)
    \/ SerializeTaken

\* serialize_function_result over every result of depth at most MaxDepth
SpecSerialize == Init /\ [][SerializeNext]_serVars

\* C22: the value returned for any nesting of lists, dicts and objects with
\* a text, content or value property is one json.dumps accepts
SerializedIsJsonEncodable ==
    ser_pc = "done" => json_encodable(ser_out)

\* ---------------------------------------------------------------- the pool, further properties
\* C28: while the release path of get_kernel tears a session down after a
\* critical error, that session is the one the failing caller had acquired
FatalReleaseTearsDownOwnInstance ==
    \A c \in Clients :
       pc[c] = "fatal_teardown" => kernels[ckey[c]] = cheld[c]

\* the pool when no teardown raises: kernel_manager.cleanup() returns in every
\* cleanup() that awaits it
NextTeardownsSucceed ==
    \/ Tick
    \/ \E c \in Clients, p \in Principals : AcquireExisting(c, p)
    \/ \E c \in Clients, p \in Principals : AcquireCreate(c, p)
    \/ \E c \in Clients : AcquireInsert(c)
    \/ \E c \in Clients : UseOk(c)
    \/ \E c \in Clients, e \in Errors, m \in Modes : UseError(c, e, m)
    \/ \E c \in Clients : FatalTeardownEnd(c, TRUE)
    \/ \E c \in Clients, u \in UserIds : RemoveLock(c, u)
    \/ \E c \in Clients : RemoveTeardownEnd(c, TRUE)
    \/ SweepStart
    \/ SweepTeardownEnd(TRUE)
    \/ Start
    \/ StopBegin
    \/ StopGatherEnd({})
    \/ StopPlugins

SpecTeardownsSucceed == Init /\ [][NextTeardownsSucceed]_vars

\* C29: when no teardown fails, the session an acquire hands out is, as the
\* caller receives it, the entry of its key in the map and has its liveness
\* flag set
HandedOutIsLiveInMap ==
    last.op = "acquire" =>
       /\ kernels[last.key] = last.sid
       /\ sess[last.sid].is_active

\* an acquire returned an existing session that the scan of the sweep would
\* find idle had the acquire not refreshed it, while another caller uses a
\* session and the sweep task sleeps
C29Witness ==
    /\ last.op = "acquire"
    /\ last.prev = last.sid
    /\ kernels[last.key] = last.sid
    /\ sess[last.sid].last_accessed = now
    /\ now = MaxTime
    /\ sweepPc = "sleep"
    /\ nextId > 2

\* the pool with the scheduling of asyncio: the sleep of _cleanup_loop ends and
\* asyncio.Lock wakes its waiters in the order they arrived, so the sweep gets
\* the lock however often callers take it; an awaited initialize or teardown
\* returns or raises
SweepFairness ==
    /\ SF_vars(SweepStart)
    /\ WF_vars(\E ok \in BOOLEAN : SweepTeardownEnd(ok))
    /\ \A c \in Clients :
         /\ WF_vars(AcquireInsert(c))
         /\ WF_vars(\E ok \in BOOLEAN : FatalTeardownEnd(c, ok))
         /\ WF_vars(\E ok \in BOOLEAN : RemoveTeardownEnd(c, ok))

SpecSweepFair == Init /\ [][Next]_vars /\ SweepFairness

\* C30: while the pool runs, a session of the map whose idle time exceeds the
\* threshold is eventually removed from the map unless it is acquired again,
\* and a sweep that ended with an exception leaves the sweep task sleeping
\* for its next round
IdleSessionEventuallyRemoved ==
    /\ \A k \in Keys :
          (phase = "running" /\ kernels[k] # 0 /\ is_idle(now, sess[kernels[k]]))
             ~> \/ phase # "running"
                \/ kernels[k] = 0
                \/ ~ is_idle(now, sess[kernels[k]])
    /\ [](last.op = "sweep_end" /\ last.raised => sweepPc = "sleep")

\* a sweep ended with the exception of a failing teardown: the session is
\* still in the map, idle, and the sweep task sleeps
C30Witness ==
    /\ last.op = "sweep_end"
    /\ last.raised
    /\ phase = "running"
    /\ sweepPc = "sleep"
    /\ kernels[last.key] = last.sid
    /\ is_idle(now, sess[last.sid])

====
